---- MODULE Spec2Model ----
(***************************************************************************)
(* A model of json-versioned (src/src/index.ts): codecs made by            *)
(* createVersioned, the declarative layer (Migration / Versioned) and the  *)
(* forward walk of versionedDeserialize.                                   *)
(*                                                                         *)
(* Transforms are uninterpreted: a value carries the sequence of the       *)
(* transforms applied to it, so that which transforms ran, in which order  *)
(* and on which argument is visible in the value itself.                   *)
(***************************************************************************)
EXTENDS Integers, Sequences, FiniteSets, TLC

\* ------------------------------------------------------------------ bounds
\* versions given to createVersioned / Versioned / setCurrentVersion: 0..MaxVersion
MaxVersion == 3
\* state-changing calls in one behaviour
MaxOps == 3
\* Migration(...) declarations on the decorated class
MaxDecl == 2

\* ---------------------------------------------------------------- JS values
Undefined == [t |-> "undefined", n |-> 0, trace |-> <<>>]
Null == [t |-> "null", n |-> 0, trace |-> <<>>]
Num(n) == [t |-> "number", n |-> n, trace |-> <<>>]
Obj(b) == [t |-> "object", n |-> b, trace |-> <<>>]

\* the transforms a caller registers (type MigrationFn)
MigrationFn == {"f", "g"}

\* the transforms given to Migration(toVersion, transform): a declaration is
\* told from the others by its toVersion
DeclaredFn == {"f"}

\* migration(currentData): the value after one more transform
Call(fn, data) == [data EXCEPT !.trace = Append(@, fn)]

\* payloads handed to versionedSerialize: a record, and undefined
Payloads == {Obj(1), Undefined}
\* every payload the claims quantify over
AllPayloads == {Obj(1), Obj(2), Undefined}
\* payloads of the envelopes handed to versionedDeserialize
StoredPayloads == {Obj(1)}

\* ToNumber, as the relational operators of JavaScript apply it
IsNaN(w) == w.t \notin {"number", "null"}
ToNumber(w) == IF w.t = "number" THEN w.n ELSE 0

\* a > b and a < b on a JS value and a number: false when a is NaN
JsGreater(w, v) == ~IsNaN(w) /\ ToNumber(w) > v
JsLess(w, v) == ~IsNaN(w) /\ ToNumber(w) < v
\* a === b on a JS value and a number
JsStrictEq(w, v) == w.t = "number" /\ w.n = v

\* --------------------------------------------------------------------- JSON
\* A JSON text is invalid, a literal, or an object: a sequence of members.
Member(k, v) == [key |-> k, val |-> v]
ObjectText(ms) == [kind |-> "object", lit |-> Undefined, members |-> ms]
LiteralText(v) == [kind |-> "literal", lit |-> v, members |-> <<>>]
InvalidText == [kind |-> "invalid", lit |-> Undefined, members |-> <<>>]

\* JSON.stringify of an object given as its members in insertion order:
\* a member whose value is undefined is left out
RECURSIVE StringifyMembers(_)
StringifyMembers(ms) ==
  IF ms = <<>> THEN <<>>
  ELSE (IF Head(ms).val = Undefined THEN <<>> ELSE <<Head(ms)>>)
         \o StringifyMembers(Tail(ms))

JSONstringify(ms) == ObjectText(StringifyMembers(ms))

\* JSON.parse: throws on an invalid text; an object text becomes a map from
\* its keys to values (the last member of a key wins)
LastOf(ms, k) ==
  LET I == {i \in 1..Len(ms) : ms[i].key = k}
      m == CHOOSE i \in I : \A j \in I : j <= i
  IN ms[m].val

JSONparse(text) ==
  IF text.kind = "invalid" THEN [threw |-> TRUE, kind |-> "invalid", lit |-> Undefined, props |-> <<>>]
  ELSE IF text.kind = "literal" THEN [threw |-> FALSE, kind |-> "literal", lit |-> text.lit, props |-> <<>>]
  ELSE [threw |-> FALSE, kind |-> "object", lit |-> Undefined,
        props |-> [k \in {text.members[i].key : i \in 1..Len(text.members)} |-> LastOf(text.members, k)]]

\* parsed.key: undefined when the property is absent or parsed is a number
CanRead(parsed) == ~(parsed.kind = "literal" /\ parsed.lit.t \in {"null", "undefined"})
Get(parsed, k) ==
  IF parsed.kind = "object" /\ k \in DOMAIN parsed.props THEN parsed.props[k] ELSE Undefined

\* ----------------------------------------------------------------- outcomes
Returned(v, calls) == [kind |-> "return", value |-> v, version |-> Undefined, calls |-> calls]
Threw(kind, version, calls) == [kind |-> kind, value |-> Undefined, version |-> version, calls |-> calls]
NoCalls == <<>>

\* -------------------------------------------------------------------- state
\* migrationMetadataMap: the declarations of the one decorated class (target)
\* classVersion:         whether Versioned(version) has been applied, and its version
\* codecs:               _version and _migrations of each createVersioned closure
\* registrations:        history: the withTransform calls that stored, per codec
\* rejected:             history: per codec, the source versions for which a
\*                       registration threw while the registry held nothing
\*                       there, and for which none has stored since
\* last:                 the latest call, its arguments and its outcome
\* ops:                  the number of state-changing calls made
VARIABLES migrationMetadataMap, classVersion, codecs, registrations, rejected, last, ops

vars == <<migrationMetadataMap, classVersion, codecs, registrations, rejected, last, ops>>

NoMigrations == <<>>
NotDecorated == [done |-> FALSE, version |-> 0]
Dead == [live |-> FALSE, version |-> 0, migrations |-> NoMigrations]

\* "static" is the codec behind the class-level versionedDeserialize
Instances == {"a", "b"}
CodecIds == {"static"} \cup Instances

Versions == 0..MaxVersion
ToVersions == 1..(MaxVersion + 1)

\* Map.set that keeps the value a key already has
MapSet_KeepFirst(m, k, fn) ==
  [x \in (DOMAIN m) \cup {k} |-> IF x \in DOMAIN m THEN m[x] ELSE fn]

\* Map.set(key, fn)
MapSet(m, k, fn) == [x \in (DOMAIN m) \cup {k} |-> IF x = k THEN fn ELSE m[x]]

\* createVersioned, lines 49-54: the declared migrations of target seed the map
RECURSIVE Seed(_, _)
Seed(m, decls) ==
  IF decls = <<>> THEN m
  ELSE Seed(MapSet(m, Head(decls).toVersion - 1, Head(decls).transform), Tail(decls))

\* createVersioned, lines 45-54: version || 1
createVersioned(version, decls) ==
  [live |-> TRUE,
   version |-> IF version = 0 THEN 1 ELSE version,
   migrations |-> Seed(NoMigrations, decls)]

\* the range check with source version 0 let through
InvalidRange_ZeroBased(codec, to) ==
  LET from == to - 1
  IN from >= codec.version \/ to > codec.version \/ from < 0 \/ to < 1

\* the range check without its comparison with the current version
InvalidRange_LowerOnly(codec, to) ==
  LET from == to - 1
  IN from < 1 \/ to < 1

\* the range check letting the current version itself through as a source
InvalidRange_UpTo(codec, to) ==
  LET from == to - 1
  IN from > codec.version \/ from < 1 \/ to < 1

\* withTransform, lines 60-65
InvalidRange(codec, to) ==
  LET from == to - 1
  IN from >= codec.version \/ to > codec.version \/ from < 1 \/ to < 1

\* withTransform storing before it checks the range
withTransform_StoreFirst(codec, to, fn) ==
  IF InvalidRange(codec, to)
  THEN [codec |-> [codec EXCEPT !.migrations = MapSet(@, to - 1, fn)],
        out |-> Threw("InvalidMigrationRange", Num(to - 1), NoCalls),
        stored |-> <<>>]
  ELSE [codec |-> [codec EXCEPT !.migrations = MapSet(@, to - 1, fn)],
        out |-> Returned(Undefined, NoCalls),
        stored |-> <<[from |-> to - 1, fn |-> fn]>>]

\* withTransform, lines 59-67: the codec after the call, and the outcome
withTransform(codec, to, fn) ==
  IF InvalidRange(codec, to)
  THEN [codec |-> codec, out |-> Threw("InvalidMigrationRange", Num(to - 1), NoCalls),
        stored |-> <<>>]
  ELSE [codec |-> [codec EXCEPT !.migrations = MapSet(@, to - 1, fn)],
        out |-> Returned(Undefined, NoCalls),
        stored |-> <<[from |-> to - 1, fn |-> fn]>>]

\* the walk with each transform looked up under its target version (version + 1)
RECURSIVE applyMigrations_ToKeyed(_, _, _, _)
applyMigrations_ToKeyed(codec, version, currentData, calls) ==
  IF ~JsLess(version, codec.version) THEN Returned(currentData, calls)
  ELSE IF version.t # "number" \/ (version.n + 1) \notin DOMAIN codec.migrations
       THEN Threw("MissingMigration", version, calls)
       ELSE LET migration == codec.migrations[version.n + 1]
            IN applyMigrations_ToKeyed(codec, Num(version.n + 1), Call(migration, currentData),
                                       Append(calls, [at |-> version.n + 1, fn |-> migration, arg |-> currentData]))

\* the walk stepping over a version that has no transform
RECURSIVE applyMigrations_SkipGap(_, _, _, _)
applyMigrations_SkipGap(codec, version, currentData, calls) ==
  IF ~JsLess(version, codec.version) THEN Returned(currentData, calls)
  ELSE IF version.t # "number" THEN Threw("MissingMigration", version, calls)
  ELSE IF version.n \notin DOMAIN codec.migrations
       THEN applyMigrations_SkipGap(codec, Num(version.n + 1), currentData, calls)
       ELSE LET migration == codec.migrations[version.n]
            IN applyMigrations_SkipGap(codec, Num(version.n + 1), Call(migration, currentData),
                                       Append(calls, [at |-> version.n, fn |-> migration, arg |-> currentData]))

\* the walk with <= for < in the loop condition: one version too far
RECURSIVE applyMigrations_PastCurrent(_, _, _, _)
applyMigrations_PastCurrent(codec, version, currentData, calls) ==
  IF ~JsLess(version, codec.version + 1) THEN Returned(currentData, calls)
  ELSE IF version.t # "number" \/ version.n \notin DOMAIN codec.migrations
       THEN Threw("MissingMigration", version, calls)
       ELSE LET migration == codec.migrations[version.n]
            IN applyMigrations_PastCurrent(codec, Num(version.n + 1), Call(migration, currentData),
                                           Append(calls, [at |-> version.n, fn |-> migration, arg |-> currentData]))

\* _applyMigrations, lines 105-117
RECURSIVE applyMigrations(_, _, _, _)
applyMigrations(codec, version, currentData, calls) ==
  IF ~JsLess(version, codec.version) THEN Returned(currentData, calls)
  ELSE IF version.t # "number" \/ version.n \notin DOMAIN codec.migrations
       THEN Threw("MissingMigration", version, calls)
       ELSE LET migration == codec.migrations[version.n]
            IN applyMigrations(codec, Num(version.n + 1), Call(migration, currentData),
                               Append(calls, [at |-> version.n, fn |-> migration, arg |-> currentData]))

\* versionedSerialize stamping the version after the current one
versionedSerialize_NextVersion(codec, data) ==
  JSONstringify(<<Member("version", Num(codec.version + 1)), Member("data", data)>>)

\* versionedSerialize writing the payload without its version
versionedSerialize_NoVersion(codec, data) ==
  JSONstringify(<<Member("data", data)>>)

\* versionedSerialize, lines 79-85
versionedSerialize(codec, data) ==
  JSONstringify(<<Member("version", Num(codec.version)), Member("data", data)>>)

\* versionedDeserialize without the check of lines 91-95
versionedDeserialize_NoFutureCheck(codec, json) ==
  LET parsed == JSONparse(json)
  IN IF parsed.threw THEN Threw("SyntaxError", Undefined, NoCalls)
     ELSE IF ~CanRead(parsed) THEN Threw("TypeError", Undefined, NoCalls)
     ELSE LET version == Get(parsed, "version")
              data == Get(parsed, "data")
          IN IF JsStrictEq(version, codec.version) THEN Returned(data, NoCalls)
             ELSE applyMigrations(codec, version, data, NoCalls)

\* versionedDeserialize with >= for > in line 91
versionedDeserialize_FutureGE(codec, json) ==
  LET parsed == JSONparse(json)
  IN IF parsed.threw THEN Threw("SyntaxError", Undefined, NoCalls)
     ELSE IF ~CanRead(parsed) THEN Threw("TypeError", Undefined, NoCalls)
     ELSE LET version == Get(parsed, "version")
              data == Get(parsed, "data")
          IN IF JsGreater(version, codec.version) \/ JsStrictEq(version, codec.version)
             THEN Threw("FutureVersion", version, NoCalls)
             ELSE applyMigrations(codec, version, data, NoCalls)

\* versionedDeserialize calling, on data of the current version, the transform
\* the registry holds at the current version
versionedDeserialize_RegistryAtCurrent(codec, json) ==
  LET parsed == JSONparse(json)
  IN IF parsed.threw THEN Threw("SyntaxError", Undefined, NoCalls)
     ELSE IF ~CanRead(parsed) THEN Threw("TypeError", Undefined, NoCalls)
     ELSE LET version == Get(parsed, "version")
              data == Get(parsed, "data")
          IN IF JsGreater(version, codec.version) THEN Threw("FutureVersion", version, NoCalls)
             ELSE IF JsStrictEq(version, codec.version)
                  THEN IF codec.version \in DOMAIN codec.migrations
                       THEN Returned(Call(codec.migrations[codec.version], data),
                                     <<[at |-> codec.version, fn |-> codec.migrations[codec.version],
                                        arg |-> data]>>)
                       ELSE Returned(data, NoCalls)
             ELSE applyMigrations(codec, version, data, NoCalls)

\* versionedDeserialize, lines 87-102
versionedDeserialize(codec, json) ==
  LET parsed == JSONparse(json)
  IN IF parsed.threw THEN Threw("SyntaxError", Undefined, NoCalls)
     ELSE IF ~CanRead(parsed) THEN Threw("TypeError", Undefined, NoCalls)
     ELSE LET version == Get(parsed, "version")
              data == Get(parsed, "data")
          IN IF JsGreater(version, codec.version) THEN Threw("FutureVersion", version, NoCalls)
             ELSE IF JsStrictEq(version, codec.version) THEN Returned(data, NoCalls)
             ELSE applyMigrations(codec, version, data, NoCalls)

\* ------------------------------------------------------------------- inputs
StoredVersions == {Num(s) : s \in 0..(MaxVersion + 1)}

\* what a caller may hand to versionedDeserialize: envelopes of every stored
\* version, and texts that are not envelopes (a negative version, no version
\* field, no JSON at all, the literal null)
Texts ==
  {JSONstringify(<<Member("version", s), Member("data", p)>>) : s \in StoredVersions, p \in StoredPayloads}
  \cup {ObjectText(<<Member("data", Obj(1))>>)}
  \cup {ObjectText(<<Member("version", Num(-1)), Member("data", Obj(1))>>)}
  \cup {InvalidText, LiteralText(Null)}

\* ------------------------------------------------------------------ actions
Result(op, c, arg, out) == [op |-> op, codec |-> c, arg |-> arg, out |-> out]

Init ==
  /\ migrationMetadataMap = <<>>
  /\ classVersion = NotDecorated
  /\ codecs = [c \in CodecIds |-> Dead]
  /\ registrations = [c \in CodecIds |-> <<>>]
  /\ rejected = [c \in CodecIds |-> {}]
  /\ last = Result("init", "static", <<>>, Returned(Undefined, NoCalls))
  /\ ops = 0

\* versionedSerialize and versionedDeserialize assign neither _version nor
\* _migrations (lines 79-117), so a call made after them starts from a codec
\* state that is reached without them as well: a behaviour is a series of
\* state-changing calls followed by the one call that is observed.
Observed == last.op \in {"versionedSerialize", "versionedDeserialize"}
MayChange == ops < MaxOps /\ ~Observed

\* codec "b" is the second codec made: the two names are interchangeable
InOrder(c) == c = "b" => codecs["a"].live

\* Migration(toVersion, transform)(target), lines 34-42. Decorators are applied
\* bottom-up, so the declarations that reach target precede Versioned.
Migration(toVersion, transform) ==
  /\ MayChange
  /\ Len(migrationMetadataMap) < MaxDecl
  /\ ~classVersion.done
  /\ migrationMetadataMap' = Append(migrationMetadataMap, [toVersion |-> toVersion, transform |-> transform])
  /\ last' = Result("Migration", "static", <<toVersion, transform>>, Returned(Undefined, NoCalls))
  /\ ops' = ops + 1
  /\ UNCHANGED <<classVersion, codecs, registrations, rejected>>

\* Versioned(version)(target), lines 122-133: the class is defined and its
\* static versionedDeserialize is bound to a codec of its own
Versioned(version) ==
  /\ MayChange
  /\ ~classVersion.done
  /\ classVersion' = [done |-> TRUE, version |-> version]
  /\ codecs' = [codecs EXCEPT !["static"] = createVersioned(version, migrationMetadataMap)]
  /\ last' = Result("Versioned", "static", version, Returned(Undefined, NoCalls))
  /\ ops' = ops + 1
  /\ UNCHANGED <<migrationMetadataMap, registrations, rejected>>

\* the constructor of the decorated class, lines 135-144: every declaration
\* goes through withTransform, and the first that throws ends the constructor
RECURSIVE Replay(_, _, _)
Replay(codec, decls, stored) ==
  IF decls = <<>> THEN [codec |-> codec, out |-> Returned(Undefined, NoCalls), stored |-> stored]
  ELSE LET r == withTransform(codec, Head(decls).toVersion, Head(decls).transform)
       IN IF r.out.kind # "return" THEN r
          ELSE Replay(r.codec, Tail(decls), stored \o r.stored)

\* new Class(), lines 130 and 135-144
Construct(version, decls) == Replay(createVersioned(version, decls), decls, <<>>)

New(c) ==
  /\ MayChange
  /\ classVersion.done
  /\ ~codecs[c].live
  /\ InOrder(c)
  /\ LET r == Construct(classVersion.version, migrationMetadataMap)
     IN /\ codecs' = IF r.out.kind = "return" THEN [codecs EXCEPT ![c] = r.codec] ELSE codecs
        /\ registrations' = IF r.out.kind = "return" THEN [registrations EXCEPT ![c] = r.stored]
                            ELSE registrations
        /\ last' = Result("new", c, classVersion.version, r.out)
  /\ ops' = ops + 1
  /\ UNCHANGED <<migrationMetadataMap, classVersion, rejected>>

\* createVersioned(version) and createVersioned(version, target) called directly
CreateVersioned(c, version, withTarget) ==
  /\ MayChange
  /\ ~codecs[c].live
  /\ InOrder(c)
  /\ codecs' = [codecs EXCEPT ![c] =
                  createVersioned(version, IF withTarget THEN migrationMetadataMap ELSE <<>>)]
  /\ last' = Result("createVersioned", c, <<version, withTarget>>, Returned(Undefined, NoCalls))
  /\ ops' = ops + 1
  /\ UNCHANGED <<migrationMetadataMap, classVersion, registrations, rejected>>

\* the source versions left without a transform by a registration that threw
Rejected(set, codec, from, out) ==
  IF out.kind = "return" THEN set \ {from}
  ELSE IF from \in DOMAIN codec.migrations THEN set
  ELSE set \cup {from}

\* codec.migrations.toVersion(to).withTransform(fn)
WithTransform(c, to, fn) ==
  /\ MayChange
  /\ codecs[c].live
  /\ LET r == withTransform(codecs[c], to, fn)
     IN /\ codecs' = [codecs EXCEPT ![c] = r.codec]
        /\ registrations' = [registrations EXCEPT ![c] = @ \o r.stored]
        /\ rejected' = [rejected EXCEPT ![c] = Rejected(@, codecs[c], to - 1, r.out)]
        /\ last' = Result("withTransform", c, <<to, fn>>, r.out)
  /\ ops' = ops + 1
  /\ UNCHANGED <<migrationMetadataMap, classVersion>>

\* addMigration, lines 71-73 (and its delegate, lines 158-160)
addMigration(codec, toVersion, migrationFn) == withTransform(codec, toVersion, migrationFn)

AddMigration(c, toVersion, fn) ==
  /\ MayChange
  /\ codecs[c].live
  /\ LET r == addMigration(codecs[c], toVersion, fn)
     IN /\ codecs' = [codecs EXCEPT ![c] = r.codec]
        /\ registrations' = [registrations EXCEPT ![c] = @ \o r.stored]
        /\ rejected' = [rejected EXCEPT ![c] = Rejected(@, codecs[c], toVersion - 1, r.out)]
        /\ last' = Result("addMigration", c, <<toVersion, fn>>, r.out)
  /\ ops' = ops + 1
  /\ UNCHANGED <<migrationMetadataMap, classVersion>>

\* setCurrentVersion dropping the transforms the new version puts out of range
setCurrentVersion_Prune(codec, version) ==
  [codec EXCEPT !.version = version,
                !.migrations = [f \in {x \in DOMAIN @ : x < version} |-> @[f]]]

\* setCurrentVersion, lines 75-77
setCurrentVersion(codec, version) == [codec EXCEPT !.version = version]

\* setCurrentVersion on a _version that every codec shares
SetCurrentVersion_Shared(c, version) ==
  /\ MayChange
  /\ codecs[c].live
  /\ codecs' = [x \in CodecIds |-> IF codecs[x].live THEN setCurrentVersion(codecs[x], version)
                                   ELSE codecs[x]]
  /\ last' = Result("setCurrentVersion", c, version, Returned(Undefined, NoCalls))
  /\ ops' = ops + 1
  /\ UNCHANGED <<migrationMetadataMap, classVersion, registrations, rejected>>

SetCurrentVersion(c, version) ==
  /\ MayChange
  /\ codecs[c].live
  /\ codecs' = [codecs EXCEPT ![c] = setCurrentVersion(@, version)]
  /\ last' = Result("setCurrentVersion", c, version, Returned(Undefined, NoCalls))
  /\ ops' = ops + 1
  /\ UNCHANGED <<migrationMetadataMap, classVersion, registrations, rejected>>

\* codec.versionedSerialize(data)
VersionedSerialize(c, data) ==
  /\ ~Observed
  /\ codecs[c].live
  /\ last' = Result("versionedSerialize", c, data,
                    Returned(versionedSerialize(codecs[c], data), NoCalls))
  /\ UNCHANGED <<migrationMetadataMap, classVersion, codecs, registrations, rejected, ops>>

\* versionedDeserialize dropping from the registry the transforms it has called
VersionedDeserialize_Consuming(c, json) ==
  /\ ~Observed
  /\ codecs[c].live
  /\ LET out == versionedDeserialize(codecs[c], json)
         used == {out.calls[i].at : i \in 1..Len(out.calls)}
     IN /\ last' = Result("versionedDeserialize", c, json, out)
        /\ codecs' = [codecs EXCEPT ![c].migrations =
                        [f \in (DOMAIN @) \ used |-> @[f]]]
  /\ UNCHANGED <<migrationMetadataMap, classVersion, registrations, rejected, ops>>

\* codec.versionedDeserialize(json), or Class.versionedDeserialize(json)
VersionedDeserialize(c, json) ==
  /\ ~Observed
  /\ codecs[c].live
  /\ last' = Result("versionedDeserialize", c, json, versionedDeserialize(codecs[c], json))
  /\ UNCHANGED <<migrationMetadataMap, classVersion, codecs, registrations, rejected, ops>>

Next ==
  \/ \E to \in ToVersions, fn \in DeclaredFn : Migration(to, fn)
  \/ \E v \in Versions : Versioned(v)
  \/ \E c \in Instances : New(c)
  \/ \E c \in Instances, v \in Versions, t \in BOOLEAN : CreateVersioned(c, v, t)
  \/ \E c \in Instances, to \in ToVersions, fn \in MigrationFn : WithTransform(c, to, fn)
  \/ \E c \in Instances, to \in ToVersions, fn \in MigrationFn : AddMigration(c, to, fn)
  \/ \E c \in Instances, v \in Versions : SetCurrentVersion(c, v)
  \/ \E c \in Instances, p \in Payloads : VersionedSerialize(c, p)
  \/ \E c \in CodecIds, json \in Texts : VersionedDeserialize(c, json)

Spec == Init /\ [][Next]_vars

\* ------------------------------------------------------------------ claims
\* the codec the latest call was made on, and what the call was given
Codec == codecs[last.codec]
Deserialized == last.op = "versionedDeserialize"

\* a text whose version field is an integer: its stored version and its data
HasVersion(json) ==
  /\ json.kind = "object"
  /\ \E i \in 1..Len(json.members) : json.members[i].key = "version"
  /\ LastOf(json.members, "version").t = "number"
StoredVersion(json) == LastOf(json.members, "version").n
StoredData(json) ==
  IF \E i \in 1..Len(json.members) : json.members[i].key = "data"
  THEN LastOf(json.members, "data") ELSE Undefined

\* the versions of s..V-1 that have no transform
Gaps(codec, s) == {v \in s..(codec.version - 1) : v \notin DOMAIN codec.migrations}
Min(S) == CHOOSE x \in S : \A y \in S : x <= y

\* the calls of a walk over from..to-1, as the claims describe them: one call
\* per version, in increasing order, each on the result of the one before
ExpectedCalls(codec, from, to, data) ==
  [i \in 1..(to - from) |->
     [at |-> from + i - 1,
      fn |-> codec.migrations[from + i - 1],
      arg |-> [data EXCEPT !.trace = [j \in 1..(i - 1) |-> codec.migrations[from + j - 1]]]]]
ExpectedValue(codec, from, to, data) ==
  [data EXCEPT !.trace = [j \in 1..(to - from) |-> codec.migrations[from + j - 1]]]

\* the case of C1: an envelope stored below the current version, no gap above it
C1_Chain ==
  /\ Deserialized
  /\ HasVersion(last.arg)
  /\ StoredVersion(last.arg) < Codec.version
  /\ Gaps(Codec, StoredVersion(last.arg)) = {}
\* C1: with a transform at every version of s..V-1, versionedDeserialize of an
\* envelope stored at s < V returns t_(V-1)(...t_s(data)...): each of those
\* transforms is called once, in increasing order of version, on the result of
\* the one before, and nothing else is called.
C1_SequentialApplication ==
  C1_Chain =>
    LET s == StoredVersion(last.arg)
        data == StoredData(last.arg)
    IN /\ last.out.kind = "return"
       /\ last.out.value = ExpectedValue(Codec, s, Codec.version, data)
       /\ Len(last.out.calls) = Codec.version - s
       /\ last.out.calls = ExpectedCalls(Codec, s, Codec.version, data)
\* a walk over two versions whose transforms differ
C1_Witness ==
  /\ C1_Chain
  /\ Codec.version - StoredVersion(last.arg) = 2
  /\ last.out.value.trace = <<"f", "g">>

\* the case of C2: an envelope stored below the current version, with a gap
C2_Gap ==
  /\ Deserialized
  /\ HasVersion(last.arg)
  /\ StoredVersion(last.arg) < Codec.version
  /\ Gaps(Codec, StoredVersion(last.arg)) # {}
\* C2: when some version of s..V-1 has no transform, versionedDeserialize fails
\* with MissingMigration naming the smallest such version m, returns no
\* payload, and has called the transforms of s..m-1 and no other.
C2_FirstMissingMigration ==
  C2_Gap =>
    LET s == StoredVersion(last.arg)
        m == Min(Gaps(Codec, s))
    IN /\ last.out.kind = "MissingMigration"
       /\ last.out.version = Num(m)
       /\ last.out.value = Undefined
       /\ Len(last.out.calls) = m - s
       /\ last.out.calls = ExpectedCalls(Codec, s, m, StoredData(last.arg))
\* a gap above the stored version: one transform has run before the failure
C2_Witness ==
  /\ C2_Gap
  /\ Min(Gaps(Codec, StoredVersion(last.arg))) = StoredVersion(last.arg) + 1
  /\ Len(last.out.calls) = 1

\* the case of C3: an envelope stored above the current version
C3_Future ==
  /\ Deserialized
  /\ HasVersion(last.arg)
  /\ StoredVersion(last.arg) > Codec.version
\* C3: an envelope stored at a version above the current one fails with
\* FutureVersion whatever the registry holds: nothing is called or returned.
C3_FutureVersionRejected ==
  C3_Future =>
    /\ last.out.kind = "FutureVersion"
    /\ last.out.version = Num(StoredVersion(last.arg))
    /\ last.out.calls = NoCalls
    /\ last.out.value = Undefined
\* the registry holds a transform at the stored version
C3_Witness ==
  /\ C3_Future
  /\ StoredVersion(last.arg) \in DOMAIN Codec.migrations

\* the case of C4: an envelope stored at the current version
C4_Current ==
  /\ Deserialized
  /\ HasVersion(last.arg)
  /\ StoredVersion(last.arg) = Codec.version
\* C4: an envelope stored at the current version comes back as its data, and
\* nothing is called, whatever the registry holds.
C4_FastPath ==
  C4_Current => last.out = Returned(StoredData(last.arg), NoCalls)
\* the registry holds a transform at the current version itself
C4_Witness ==
  /\ C4_Current
  /\ Codec.version \in DOMAIN Codec.migrations
  /\ StoredData(last.arg) = Obj(1)

\* C5: in every codec state, versionedDeserialize(versionedSerialize(p))
\* returns p, and calls no transform, for every payload p. (Every state of a
\* codec is first reached by a call on that codec, so the codec of the latest
\* call ranges over all of them.)
C5_RoundTrip ==
  (last.codec \in Instances /\ Codec.live) =>
    \A p \in AllPayloads :
      versionedDeserialize(Codec, versionedSerialize(Codec, p)) = Returned(p, NoCalls)
\* a round trip on a codec whose version was set to 0 and whose registry is not empty
C5_Witness ==
  /\ Deserialized
  /\ last.codec \in Instances
  /\ Codec.version = 0
  /\ Codec.migrations # NoMigrations
  /\ last.arg = versionedSerialize(Codec, Obj(1))
  /\ last.out = Returned(Obj(1), NoCalls)

C6_Registered == last.op = "withTransform"
\* C6: with current version V, withTransform for source version f (to = f + 1)
\* returns and stores fn at key f when 1 <= f < V, and fails with
\* InvalidMigrationRange otherwise.
C6_RegistrationBounds ==
  C6_Registered =>
    LET f == last.arg[1] - 1
        fn == last.arg[2]
    IN IF 1 <= f /\ f < Codec.version
       THEN /\ last.out.kind = "return"
            /\ f \in DOMAIN Codec.migrations
            /\ Codec.migrations[f] = fn
       ELSE last.out.kind = "InvalidMigrationRange"
\* V = 3 and f = 2: stored
C6_Witness ==
  /\ C6_Registered
  /\ Codec.version = 3
  /\ last.arg[1] = 3
  /\ last.out.kind = "return"
  /\ Codec.migrations[2] = last.arg[2]

\* an envelope: a record of exactly the fields version, a non-negative
\* integer, and data
IsEnvelope(json) ==
  /\ json.kind = "object"
  /\ Len(json.members) = 2
  /\ {json.members[i].key : i \in 1..2} = {"version", "data"}
  /\ LastOf(json.members, "version").t = "number"
  /\ LastOf(json.members, "version").n >= 0
\* the failures of decoding: JSON.parse throwing, a property read of null throwing
DecodeErrors == {"SyntaxError", "TypeError"}

\* C7: versionedDeserialize fails with a decode error, and returns nothing, for
\* every input that is not an envelope.
C7_MalformedRejected ==
  (Deserialized /\ ~IsEnvelope(last.arg)) =>
    /\ last.out.kind \in DecodeErrors
    /\ last.out.value = Undefined

C8_Serialized == last.op = "versionedSerialize"
\* C8: versionedSerialize(p) returns an envelope whose version is the codec's
\* current version (the version it was created with, or the one set last) and
\* whose data is p; the registry has no part in it.
C8_EnvelopeOfCurrentVersion ==
  /\ C8_Serialized =>
       /\ last.out.kind = "return"
       /\ HasVersion(last.out.value)
       /\ StoredVersion(last.out.value) = Codec.version
       /\ StoredData(last.out.value) = last.arg
       /\ \A i \in 1..Len(last.out.value.members) :
            last.out.value.members[i].key \in {"version", "data"}
  /\ last.op = "setCurrentVersion" => Codec.version = last.arg
  /\ (last.op = "createVersioned" /\ last.arg[1] >= 1) => Codec.version = last.arg[1]
  /\ (last.codec \in Instances /\ Codec.live) =>
       \A p \in AllPayloads :
         versionedSerialize(Codec, p)
           = versionedSerialize([Codec EXCEPT !.migrations = NoMigrations], p)
\* serialize after setCurrentVersion(0), with a transform registered
C8_Witness ==
  /\ C8_Serialized
  /\ Codec.version = 0
  /\ Codec.migrations # NoMigrations
  /\ last.arg = Obj(1)
  /\ StoredVersion(last.out.value) = 0

\* the transform of the latest withTransform call that stored at source version f
RegisteredAt(hist, f) == {i \in 1..Len(hist) : hist[i].from = f}
LastRegistered(hist, f) ==
  hist[CHOOSE i \in RegisteredAt(hist, f) : \A j \in RegisteredAt(hist, f) : j <= i].fn

\* C9: last write wins: the registry holds, for a source version f, the transform
\* of the latest successful registration for f, and a deserialize step at f calls
\* that transform and no earlier one.
C9_LastWriteWins ==
  /\ \A c \in Instances :
       \A i \in 1..Len(registrations[c]) :
         LET f == registrations[c][i].from
         IN /\ f \in DOMAIN codecs[c].migrations
            /\ codecs[c].migrations[f] = LastRegistered(registrations[c], f)
  /\ Deserialized =>
       \A i \in 1..Len(last.out.calls) :
         LET f == last.out.calls[i].at
         IN /\ RegisteredAt(registrations[last.codec], f) # {} =>
                 last.out.calls[i].fn = LastRegistered(registrations[last.codec], f)
            /\ \A j \in 1..Len(last.out.calls) : last.out.calls[j].at = f => j = i
\* two registrations for one source version, f then g, and a walk through it
C9_Witness ==
  /\ Deserialized
  /\ \E i \in 1..Len(last.out.calls) :
       LET hist == registrations[last.codec]
           f == last.out.calls[i].at
       IN /\ Len(hist) = 2
          /\ hist[1] = [from |-> f, fn |-> "f"]
          /\ hist[2] = [from |-> f, fn |-> "g"]
          /\ last.out.calls[i].fn = "g"

\* the declared pairs that the range check of a codec of version V refuses
OutOfRange(decls, V) ==
  {i \in 1..Len(decls) : decls[i].toVersion - 1 < 1 \/ decls[i].toVersion - 1 >= V}
\* the calls that build a codec from the declarations
FromDeclarations ==
  \/ last.op \in {"Versioned", "new"}
  \/ last.op = "createVersioned" /\ last.arg[2]

\* the version the codec of the latest call was built for (version || 1)
BuiltVersion ==
  LET version == IF last.op = "createVersioned" THEN last.arg[1] ELSE last.arg
  IN IF version = 0 THEN 1 ELSE version

\* C10: a codec built from the declarations checks each declared pair as
\* withTransform does: with a pair out of range for its version, building it
\* fails with InvalidMigrationRange and no codec holds that transform.
C10_DeclarationsChecked ==
  FromDeclarations =>
    \A i \in OutOfRange(migrationMetadataMap, BuiltVersion) :
      /\ last.out.kind = "InvalidMigrationRange"
      /\ Codec.live => (migrationMetadataMap[i].toVersion - 1) \notin DOMAIN Codec.migrations

\* an envelope of version s
Envelope(s, data) == JSONstringify(<<Member("version", Num(s)), Member("data", data)>>)
\* the case of C11: the envelope read is of a source version whose registration
\* was refused, and the current version has since been set above it
C11_Stale ==
  /\ Deserialized
  /\ HasVersion(last.arg)
  /\ StoredVersion(last.arg) \in rejected[last.codec]
  /\ StoredVersion(last.arg) < Codec.version
\* C11: a registration for source version f >= 1 is refused exactly when the
\* current version at the call is <= f, and the same call is accepted once
\* setCurrentVersion(V), V > f, has been made; a refused registration stores
\* nothing, also after the version is set above f: an envelope of version f
\* then fails with MissingMigration(f), nothing called.
C11_DecidedAtCallTime ==
  /\ (last.op = "withTransform" /\ last.arg[1] - 1 >= 1) =>
       LET f == last.arg[1] - 1
       IN /\ last.out.kind = "InvalidMigrationRange" <=> Codec.version <= f
          /\ last.out.kind = "InvalidMigrationRange" =>
               \A V \in (f + 1)..MaxVersion :
                 LET r == withTransform(setCurrentVersion(Codec, V), last.arg[1], last.arg[2])
                 IN r.out.kind = "return" /\ r.codec.migrations[f] = last.arg[2]
  /\ \A c \in Instances : \A f \in rejected[c] : f \notin DOMAIN codecs[c].migrations
  /\ C11_Stale =>
       last.out = Threw("MissingMigration", Num(StoredVersion(last.arg)), NoCalls)
\* refused at f >= 1, the version raised above f, an envelope of version f read
C11_Witness ==
  /\ C11_Stale
  /\ StoredVersion(last.arg) >= 1
  /\ ~InvalidRange(Codec, StoredVersion(last.arg) + 1)
  /\ last.out.kind = "MissingMigration"

\* C12: in every reachable state, every registry entry of every codec has a
\* source version within 1..currentVersion-1.
C12_RegistryWithinRange ==
  \A c \in CodecIds :
    codecs[c].live =>
      \A f \in DOMAIN codecs[c].migrations : 1 <= f /\ f < codecs[c].version

\* the source versions at which a step stores, or replaces, a transform of codec c
StoredBy(c) ==
  {f \in DOMAIN codecs'[c].migrations :
     f \notin DOMAIN codecs[c].migrations \/ codecs'[c].migrations[f] # codecs[c].migrations[f]}
\* C12, as the code has it: whatever a call stores in the registry of an
\* existing codec has a source version within 1..currentVersion-1 at that call,
\* and only a registration stores; the registry as a whole is not kept within
\* that range (setCurrentVersion re-validates nothing, seeding checks nothing).
C12_StoredWithinRange ==
  [][\A c \in Instances :
       codecs[c].live =>
         /\ \A f \in StoredBy(c) :
              /\ last'.op \in {"withTransform", "addMigration"}
              /\ last'.codec = c
              /\ 1 <= f /\ f < codecs[c].version
              /\ codecs'[c].version = codecs[c].version
         /\ DOMAIN codecs[c].migrations \subseteq DOMAIN codecs'[c].migrations]_vars
\* a transform registered in range, and the current version then set to its
\* source version: the entry is still there
C12_Witness ==
  /\ last.op = "setCurrentVersion"
  /\ \E i \in 1..Len(registrations[last.codec]) :
       LET f == registrations[last.codec][i].from
       IN f \in DOMAIN Codec.migrations /\ f = Codec.version

\* the calls that register on a codec or set its version
Configures == {"new", "withTransform", "addMigration", "setCurrentVersion"}
\* C13: a registration or setCurrentVersion on one codec (the registrations of
\* a constructor included) leaves the registry and the current version of every
\* other codec as they were: the instances of the decorated class, the codec
\* behind the static versionedDeserialize, the codecs of createVersioned.
C13_NoSharedState ==
  [][last'.op \in Configures =>
       \A c \in CodecIds \ {last'.codec} :
         /\ codecs'[c] = codecs[c]
         /\ registrations'[c] = registrations[c]
         /\ rejected'[c] = rejected[c]]_vars
\* the class is decorated, and the version of an instance has been set away
\* from the one its static codec has
C13_Witness ==
  /\ last.op = "setCurrentVersion"
  /\ last.codec \in Instances
  /\ classVersion.done
  /\ codecs["static"].live
  /\ codecs["static"].version = classVersion.version
  /\ Codec.version # codecs["static"].version

\* C14: addMigration(fromVersion, fn) is accepted exactly when
\* 1 <= fromVersion < currentVersion and then stores fn at source version
\* fromVersion, as migrations.toVersion(fromVersion + 1).withTransform(fn) does,
\* so that an envelope of version fromVersion has fn applied first.
C14_AddMigrationBySource ==
  last.op = "addMigration" =>
    LET fromVersion == last.arg[1]
        fn == last.arg[2]
    IN IF 1 <= fromVersion /\ fromVersion < Codec.version
       THEN /\ last.out.kind = "return"
            /\ fromVersion \in DOMAIN Codec.migrations
            /\ Codec.migrations[fromVersion] = fn
            /\ LET out == versionedDeserialize(Codec, Envelope(fromVersion, Obj(1)))
               IN out.calls # NoCalls /\ Head(out.calls) = [at |-> fromVersion, fn |-> fn, arg |-> Obj(1)]
       ELSE last.out.kind = "InvalidMigrationRange"

\* what a caller sees of an outcome: the payload, or the failure and its version
Seen(out) == [kind |-> out.kind, value |-> out.value, version |-> out.version]
\* the envelopes of the stored versions
Envelopes == {Envelope(s, p) : s \in 0..(MaxVersion + 1), p \in StoredPayloads}

\* C15: with the class decorated by Versioned(V) over any declarations, the
\* static versionedDeserialize and the versionedDeserialize of a fresh
\* instance give the same outcome for every envelope.
C15_StaticAsInstance ==
  last.op = "new" =>
    \A json \in Envelopes :
      Seen(versionedDeserialize(codecs["static"], json))
        = Seen(IF last.out.kind = "return" THEN versionedDeserialize(Codec, json) ELSE last.out)

\* a registration that threw
C16_Refused ==
  /\ last.op \in {"withTransform", "addMigration"}
  /\ last.out.kind = "InvalidMigrationRange"
\* C16: a registration that fails with InvalidMigrationRange leaves the
\* registry, a transform already stored at that source version included, and
\* the current version as they were; what the codec does afterwards is a
\* function of that state, so later registrations and reads go as if the call
\* had not been made.
C16_RefusedChangesNothing ==
  [][(last'.op \in {"withTransform", "addMigration"} /\ last'.out.kind = "InvalidMigrationRange") =>
       /\ codecs' = codecs
       /\ registrations' = registrations
       /\ \A to \in ToVersions, fn \in MigrationFn :
            withTransform(codecs'[last'.codec], to, fn) = withTransform(codecs[last'.codec], to, fn)
       /\ \A json \in Texts :
            versionedDeserialize(codecs'[last'.codec], json) = versionedDeserialize(codecs[last'.codec], json)]_vars
\* refused at a source version that holds another transform, which is kept
C16_Witness ==
  /\ C16_Refused
  /\ (last.arg[1] - 1) \in DOMAIN Codec.migrations
  /\ Codec.migrations[last.arg[1] - 1] # last.arg[2]

\* the calls that read
Reads == {"versionedSerialize", "versionedDeserialize"}
\* C17: versionedSerialize and versionedDeserialize leave the registry and the
\* current version of every codec as they were, whether they return or fail,
\* and the same call made again on the codec gives the same outcome.
C17_ReadsChangeNothing ==
  [][last'.op \in Reads =>
       /\ codecs' = codecs
       /\ registrations' = registrations
       /\ last'.op = "versionedDeserialize" =>
            last'.out = versionedDeserialize(codecs'[last'.codec], last'.arg)
       /\ last'.op = "versionedSerialize" =>
            last'.out.value = versionedSerialize(codecs'[last'.codec], last'.arg)]_vars
\* a deserialize that failed after calling a transform
C17_Witness ==
  /\ Deserialized
  /\ last.out.kind = "MissingMigration"
  /\ last.out.calls # NoCalls
  /\ last.out.calls[1].at \in DOMAIN Codec.migrations

Max(x, y) == IF x >= y THEN x ELSE y
\* the case of C18: a well-formed envelope has been read
C18_Walked == Deserialized /\ IsEnvelope(last.arg)
\* C18: versionedDeserialize of a well-formed envelope ends, returning or
\* failing, after at most max(0, V - s) transform calls: the walk visits
\* s, s+1, ... in order, each once, never above V - 1, and returns exactly
\* after the call at V - 1 (V - s calls when it returns, s <= V).
C18_BoundedWalk ==
  C18_Walked =>
    LET s == StoredVersion(last.arg)
        V == Codec.version
        calls == last.out.calls
    IN /\ last.out.kind \in {"return", "MissingMigration", "FutureVersion"}
       /\ Len(calls) <= Max(0, V - s)
       /\ \A i \in 1..Len(calls) : calls[i].at = s + i - 1 /\ calls[i].at <= V - 1
       /\ last.out.kind = "return" => Len(calls) = V - s
       /\ (last.out.kind = "return" /\ s < V) => calls[Len(calls)].at = V - 1
       /\ last.out.kind = "MissingMigration" =>
            /\ Len(calls) < V - s
            /\ last.out.version = Num(s + Len(calls))
       /\ last.out.kind = "FutureVersion" => calls = NoCalls
\* a walk that returned after the call at V - 1, on a registry that holds a
\* transform at V as well
C18_Witness ==
  /\ C18_Walked
  /\ last.out.kind = "return"
  /\ last.out.calls # NoCalls
  /\ Codec.version \in DOMAIN Codec.migrations

\* C19: setCurrentVersion(v) returns for every v, below 1 and at or below a
\* registered source version included, sets the current version to v and
\* leaves every registry entry as it was.
C19_SetsVersionOnly ==
  [][last'.op = "setCurrentVersion" =>
       LET c == last'.codec
       IN /\ last'.out.kind = "return"
          /\ codecs'[c].version = last'.arg
          /\ codecs'[c].migrations = codecs[c].migrations
          /\ registrations' = registrations]_vars
\* the version set to 0 on a codec with a registered transform
C19_Witness ==
  /\ last.op = "setCurrentVersion"
  /\ last.arg = 0
  /\ Codec.version = 0
  /\ registrations[last.codec] # <<>>
  /\ \A i \in 1..Len(registrations[last.codec]) :
       registrations[last.codec][i].from \in DOMAIN Codec.migrations

\* the case of C20: a text with a stored version has been read
C20_Read == Deserialized /\ HasVersion(last.arg)
\* the registry entries of the versions s..V-1
Walked(codec, s) ==
  [f \in {x \in DOMAIN codec.migrations : s <= x /\ x < codec.version} |-> codec.migrations[f]]
\* C20: the outcome of versionedDeserialize is a function of the envelope, the
\* current version V and the registry entries at s..V-1: it is the outcome on
\* the registry cut down to that range, the outcome with any entry outside the
\* range added or replaced, and the outcome of every codec of version V whose
\* registry agrees on the range; no transform outside s..V-1 is called.
C20_OnlyTheRangeMatters ==
  C20_Read =>
    LET s == StoredVersion(last.arg)
        V == Codec.version
    IN /\ last.out = versionedDeserialize([Codec EXCEPT !.migrations = Walked(Codec, s)], last.arg)
       /\ \A k \in 0..(MaxVersion + 1), fn \in MigrationFn :
            ~(s <= k /\ k < V) =>
              last.out = versionedDeserialize([Codec EXCEPT !.migrations = MapSet(@, k, fn)], last.arg)
       /\ \A c \in CodecIds :
            (codecs[c].live /\ codecs[c].version = V /\ Walked(codecs[c], s) = Walked(Codec, s)) =>
              last.out = versionedDeserialize(codecs[c], last.arg)
       /\ \A i \in 1..Len(last.out.calls) :
            s <= last.out.calls[i].at /\ last.out.calls[i].at < V
\* a walk that called a transform, on a registry that holds an entry outside s..V-1
C20_Witness ==
  /\ C20_Read
  /\ last.out.calls # NoCalls
  /\ DOMAIN Codec.migrations # DOMAIN Walked(Codec, StoredVersion(last.arg))

====
